---- MODULE Spec2Model ----
(***************************************************************************)
(* Model of HealthCareDiseaseAnalysis2.py: one run of the Streamlit script *)
(* (text input -> get_disease_info -> display_disease_info/generate_pdf).  *)
(*                                                                         *)
(* Text that the program searches, slices, strips or parses is a sequence  *)
(* of one-character strings.  Text that the program only emits is a        *)
(* sequence of string fragments (a literal of the source is one fragment). *)
(* The characters used are the ones listed in the definitions below; the   *)
(* JSON decoder and float() are modelled exactly over those characters.    *)
(***************************************************************************)
EXTENDS Integers, Sequences, FiniteSets, TLC

VARIABLES pc, disease_name, reply, content, json_text, disease_info, ui, pdf_bytes, exc,
          calls, pdfCalls

vars ==
  <<pc, disease_name, reply, content, json_text, disease_info, ui, pdf_bytes, exc, calls,
    pdfCalls>>

-----------------------------------------------------------------------------
(* Characters                                                              *)

(* The grave accent (U+0060) cannot be written inside a TLA+ string: the     *)
(* character is the one-element string named BT.                           *)
BT == "BT"
QUOTE == "\""
NL == "\n"

IsSpace(c) == c \in {" ", NL}

IsDigit(c) == c \in {"0", "1", "2", "3", "4", "5", "6", "7", "8", "9"}

DigitVal(c) ==
  CASE c = "0" -> 0 [] c = "1" -> 1 [] c = "2" -> 2 [] c = "3" -> 3
    [] c = "4" -> 4 [] c = "5" -> 5 [] c = "6" -> 6 [] c = "7" -> 7
    [] c = "8" -> 8 [] c = "9" -> 9

DigitChar(d) == <<"0", "1", "2", "3", "4", "5", "6", "7", "8", "9">>[d + 1]

-----------------------------------------------------------------------------
(* Python values that json.loads can return.  Every value is a record with *)
(* the same fields: t the type, s the characters of a str, n the number    *)
(* (bool: 0/1), items the entries of a dict or list in order (a list entry *)
(* has the empty key).                                                     *)

None == [t |-> "null", s |-> <<>>, n |-> 0, items |-> <<>>]
JStr(chars) == [t |-> "str", s |-> chars, n |-> 0, items |-> <<>>]
JNum(k) == [t |-> "num", s |-> <<>>, n |-> k, items |-> <<>>]
JBool(b) == [t |-> "bool", s |-> <<>>, n |-> IF b THEN 1 ELSE 0, items |-> <<>>]
JDict(pairs) == [t |-> "dict", s |-> <<>>, n |-> 0, items |-> pairs]
JList(vals) ==
  [t |-> "list", s |-> <<>>, n |-> 0,
   items |-> [i \in 1..Len(vals) |-> [k |-> <<>>, val |-> vals[i]]]]

Pair(key, v) == [k |-> key, val |-> v]

(* dict.__setitem__ as the decoder uses it: a repeated key keeps its first *)
(* position and takes the last value.                                      *)
DictSet(pairs, key, v) ==
  IF \E i \in 1..Len(pairs) : pairs[i].k = key
  THEN [i \in 1..Len(pairs) |-> IF pairs[i].k = key THEN Pair(key, v) ELSE pairs[i]]
  ELSE Append(pairs, Pair(key, v))

HasKey(d, key) == \E i \in 1..Len(d.items) : d.items[i].k = key

(* dict.get(key, default) on a dict d *)
DictGet(d, key, default) ==
  IF HasKey(d, key)
  THEN d.items[CHOOSE i \in 1..Len(d.items) : d.items[i].k = key].val
  ELSE default

(* bool(v): Python truthiness *)
Truthy(v) ==
  CASE v.t = "null" -> FALSE
    [] v.t = "str" -> v.s # <<>>
    [] v.t = "num" -> v.n # 0
    [] v.t = "bool" -> v.n = 1
    [] OTHER -> v.items # <<>>

-----------------------------------------------------------------------------
(* json.loads: the strict decoder over a character sequence.               *)

Fail == [ok |-> FALSE, val |-> None, pos |-> 0]
Ok(v, p) == [ok |-> TRUE, val |-> v, pos |-> p]

RECURSIVE SkipWs(_, _)
SkipWs(s, i) == IF i <= Len(s) /\ IsSpace(s[i]) THEN SkipWs(s, i + 1) ELSE i

StartsWith(s, i, lit) ==
  /\ i + Len(lit) - 1 <= Len(s)
  /\ \A j \in 1..Len(lit) : s[i + j - 1] = lit[j]

(* position of the closing quote of a string whose body starts at i; 0 if  *)
(* the string is unterminated or holds a control character                 *)
RECURSIVE ScanString(_, _)
ScanString(s, i) ==
  IF i > Len(s) \/ s[i] = NL THEN 0
  ELSE IF s[i] = QUOTE THEN i
  ELSE ScanString(s, i + 1)

ParseString(s, i) ==
  IF i > Len(s) \/ s[i] # QUOTE THEN Fail
  ELSE LET j == ScanString(s, i + 1)
       IN IF j = 0 THEN Fail ELSE Ok(JStr(SubSeq(s, i + 1, j - 1)), j + 1)

RECURSIVE ScanDigits(_, _, _)
ScanDigits(s, i, acc) ==
  IF i <= Len(s) /\ IsDigit(s[i])
  THEN ScanDigits(s, i + 1, acc * 10 + DigitVal(s[i]))
  ELSE [n |-> acc, pos |-> i]

(* optional minus sign, then 0 or a digit string without a leading zero *)
ParseNumber(s, i) ==
  LET neg == i <= Len(s) /\ s[i] = "-"
      j == IF neg THEN i + 1 ELSE i
  IN IF j > Len(s) \/ ~IsDigit(s[j]) THEN Fail
     ELSE IF s[j] = "0" THEN Ok(JNum(0), j + 1)
     ELSE LET r == ScanDigits(s, j, 0)
          IN Ok(JNum(IF neg THEN 0 - r.n ELSE r.n), r.pos)

RECURSIVE ParseValue(_, _)
RECURSIVE ParseMembers(_, _, _)
RECURSIVE ParseElements(_, _, _)

(* after an opening brace or a comma: key ws : ws value ws, then a comma *)
(* and more members, or the closing brace                                  *)
ParseMembers(s, i, pairs) ==
  LET key == ParseString(s, i)
  IN IF ~key.ok THEN Fail
     ELSE LET c == SkipWs(s, key.pos)
          IN IF c > Len(s) \/ s[c] # ":" THEN Fail
             ELSE LET v == ParseValue(s, SkipWs(s, c + 1))
                  IN IF ~v.ok THEN Fail
                     ELSE LET e == SkipWs(s, v.pos)
                              acc == DictSet(pairs, key.val.s, v.val)
                          IN IF e > Len(s) THEN Fail
                             ELSE IF s[e] = "}" THEN Ok(JDict(acc), e + 1)
                             ELSE IF s[e] = "," THEN ParseMembers(s, SkipWs(s, e + 1), acc)
                             ELSE Fail

(* after an opening bracket or a comma: value ws, then a comma and more     *)
(* elements, or the closing bracket                                        *)
ParseElements(s, i, vals) ==
  LET v == ParseValue(s, i)
  IN IF ~v.ok THEN Fail
     ELSE LET e == SkipWs(s, v.pos)
              acc == Append(vals, v.val)
          IN IF e > Len(s) THEN Fail
             ELSE IF s[e] = "]" THEN Ok(JList(acc), e + 1)
             ELSE IF s[e] = "," THEN ParseElements(s, SkipWs(s, e + 1), acc)
             ELSE Fail

ParseValue(s, i) ==
  IF i > Len(s) THEN Fail
  ELSE IF s[i] = QUOTE THEN ParseString(s, i)
  ELSE IF s[i] = "{" THEN
    LET j == SkipWs(s, i + 1)
    IN IF j <= Len(s) /\ s[j] = "}" THEN Ok(JDict(<<>>), j + 1)
       ELSE ParseMembers(s, j, <<>>)
  ELSE IF s[i] = "[" THEN
    LET j == SkipWs(s, i + 1)
    IN IF j <= Len(s) /\ s[j] = "]" THEN Ok(JList(<<>>), j + 1)
       ELSE ParseElements(s, j, <<>>)
  ELSE IF StartsWith(s, i, <<"n", "u", "l", "l">>) THEN Ok(None, i + 4)
  ELSE IF StartsWith(s, i, <<"t", "r", "u", "e">>) THEN Ok(JBool(TRUE), i + 4)
  ELSE IF StartsWith(s, i, <<"f", "a", "l", "s", "e">>) THEN Ok(JBool(FALSE), i + 5)
  ELSE ParseNumber(s, i)

(* json.loads(s): ok = FALSE stands for JSONDecodeError *)
JsonLoads(s) ==
  LET r == ParseValue(s, SkipWs(s, 1))
  IN IF r.ok /\ SkipWs(s, r.pos) = Len(s) + 1 THEN r ELSE Fail

-----------------------------------------------------------------------------
(* str operations used by get_disease_info                                 *)

FENCE == <<BT, BT, BT>>

SetMin(S) == CHOOSE x \in S : \A y \in S : x <= y
SetMax(S) == CHOOSE x \in S : \A y \in S : y <= x

(* the 0-based indices at which sub occurs in s *)
Occurrences(s, sub) == {i \in 0..(Len(s) - Len(sub)) : StartsWith(s, i + 1, sub)}

(* str.find / str.rfind: the first / last 0-based index, -1 when absent *)
Find(s, sub) == LET at == Occurrences(s, sub) IN IF at = {} THEN -1 ELSE SetMin(at)
RFind(s, sub) == LET at == Occurrences(s, sub) IN IF at = {} THEN -1 ELSE SetMax(at)

(* s[a:b] for a, b >= 0 *)
Slice(s, a, b) ==
  LET e == IF b > Len(s) THEN Len(s) ELSE b
  IN IF a >= e THEN <<>> ELSE SubSeq(s, a + 1, e)

RECURSIVE LStrip(_)
LStrip(s) == IF s # <<>> /\ IsSpace(Head(s)) THEN LStrip(Tail(s)) ELSE s

RECURSIVE RStrip(_)
RStrip(s) == IF s # <<>> /\ IsSpace(s[Len(s)]) THEN RStrip(SubSeq(s, 1, Len(s) - 1)) ELSE s

(* str.strip() *)
Strip(s) == RStrip(LStrip(s))

RECURSIVE NatChars(_)
NatChars(k) ==
  IF k < 10 THEN <<DigitChar(k)>> ELSE NatChars(k \div 10) \o <<DigitChar(k % 10)>>

(* str(int) *)
IntChars(k) == IF k < 0 THEN <<"-">> \o NatChars(0 - k) ELSE NatChars(k)

-----------------------------------------------------------------------------
(* get_disease_info, after the service has answered                        *)

(* a slip in the offset past the opening marker *)
json_start_short(text) == Find(text, FENCE) + 2

(* line 34 *)
json_start(text) == Find(text, FENCE) + 3

(* the marker that closes the first block instead of the last marker *)
json_end_first_block(text) ==
  LET after == {i \in Occurrences(text, FENCE) : i >= Find(text, FENCE) + 3}
  IN IF after = {} THEN RFind(text, FENCE) ELSE SetMin(after)

(* line 35 *)
json_end(text) == RFind(text, FENCE)

(* line 36: the text handed to json.loads *)
JsonText(text) ==
  LET start == json_start(text)
      end == json_end(text)
  IN IF start > 2 /\ end > 0 THEN Strip(Slice(text, start, end)) ELSE text

(* UI calls: op the streamlit function, text its text, file the file name  *)
(* of a download, vals the charted numbers                                 *)
Event(op, text) == [op |-> op, text |-> text, file |-> <<>>, vals |-> <<>>]

DecodeErrorNotice == Event("error", <<"Error decoding JSON. Please check API response.">>)

(* message.content: None, or a str *)
NoContent == [isNone |-> TRUE, text |-> <<>>]
Text(chars) == [isNone |-> FALSE, text |-> chars]

(* lines 38-42 on the text handed to json.loads: the value returned and    *)
(* the UI calls made                                                       *)
Decode(text) ==
  LET r == JsonLoads(text)
  IN IF r.ok
     THEN [exc |-> "none", json_text |-> text, ret |-> r.val, ui |-> <<>>]
     ELSE [exc |-> "none", json_text |-> text, ret |-> None, ui |-> <<DecodeErrorNotice>>]

(* the outcome of lines 33-42 on message.content c: the exception that     *)
(* leaves the function (none if it returns), the local json_text, the      *)
(* value returned and the UI calls made.  None has no find method.         *)
GetDiseaseInfoResult(c) ==
  IF c.isNone
  THEN [exc |-> "AttributeError", json_text |-> <<>>, ret |-> None, ui |-> <<>>]
  ELSE Decode(JsonText(c.text))

-----------------------------------------------------------------------------
(* The keys the renderers read                                             *)

K_name == <<"n", "a", "m", "e">>
K_statistics == <<"s", "t", "a", "t", "i", "s", "t", "i", "c", "s">>
K_total_cases == <<"t", "o", "t", "a", "l", "_", "c", "a", "s", "e", "s">>
K_recovery_rate == <<"r", "e", "c", "o", "v", "e", "r", "y", "_", "r", "a", "t", "e">>
K_mortality_rate == <<"m", "o", "r", "t", "a", "l", "i", "t", "y", "_", "r", "a", "t", "e">>
K_recovery_options == <<"r", "e", "c", "o", "v", "e", "r", "y", "_", "o", "p", "t", "i", "o", "n", "s">>
K_medication == <<"m", "e", "d", "i", "c", "a", "t", "i", "o", "n">>
K_side_effects == <<"s", "i", "d", "e", "_", "e", "f", "f", "e", "c", "t", "s">>
K_dosage == <<"d", "o", "s", "a", "g", "e">>

-----------------------------------------------------------------------------
(* Python operations the renderers apply to decoded values.  An operation  *)
(* that raises is a record whose exc names the exception.                  *)

(* a value used as a default of dict.get: a str literal of the source is   *)
(* one fragment                                                            *)
Lit(text) == JStr(<<text>>)

RECURSIVE PyRepr(_)
RECURSIVE ReprItems(_, _)

(* repr(v) *)
PyRepr(v) ==
  CASE v.t = "null" -> <<"None">>
    [] v.t = "bool" -> IF v.n = 1 THEN <<"True">> ELSE <<"False">>
    [] v.t = "num" -> IntChars(v.n)
    [] v.t = "str" -> <<"'">> \o v.s \o <<"'">>
    [] v.t = "list" -> <<"[">> \o ReprItems(v.items, FALSE) \o <<"]">>
    [] v.t = "dict" -> <<"{">> \o ReprItems(v.items, TRUE) \o <<"}">>

ReprItems(items, keyed) ==
  IF items = <<>> THEN <<>>
  ELSE (IF keyed THEN <<"'">> \o items[1].k \o <<"'", ": ">> ELSE <<>>)
       \o PyRepr(items[1].val)
       \o (IF Len(items) > 1 THEN <<", ">> ELSE <<>>)
       \o ReprItems(Tail(items), keyed)

(* str(v), as an f-string formats a value *)
PyStr(v) == IF v.t = "str" THEN v.s ELSE PyRepr(v)

(* str.strip('%') *)
RECURSIVE LStripPct(_)
LStripPct(s) == IF s # <<>> /\ Head(s) = "%" THEN LStripPct(Tail(s)) ELSE s

RECURSIVE RStripPct(_)
RStripPct(s) ==
  IF s # <<>> /\ s[Len(s)] = "%" THEN RStripPct(SubSeq(s, 1, Len(s) - 1)) ELSE s

StripPct(s) == RStripPct(LStripPct(s))

(* float(s): surrounding whitespace, an optional sign, digits; ok = FALSE  *)
(* stands for ValueError                                                   *)
ParseFloat(s) ==
  LET b == Strip(s)
      signed == b # <<>> /\ Head(b) \in {"-", "+"}
      d == IF signed THEN Tail(b) ELSE b
  IN IF d = <<>> \/ \E i \in 1..Len(d) : ~IsDigit(d[i])
     THEN [ok |-> FALSE, n |-> 0]
     ELSE [ok |-> TRUE,
           n |-> IF signed /\ Head(b) = "-"
                 THEN 0 - ScanDigits(d, 1, 0).n ELSE ScanDigits(d, 1, 0).n]

(* float(stats.get(key, "0%").strip('%')) on a dict stats *)
RateOf(stats, key) ==
  LET raw == DictGet(stats, key, JStr(<<"0", "%">>))
  IN IF raw.t # "str" THEN [exc |-> "AttributeError", n |-> 0]
     ELSE LET f == ParseFloat(StripPct(raw.s))
          IN IF f.ok THEN [exc |-> "none", n |-> f.n] ELSE [exc |-> "ValueError", n |-> 0]

(* iter(v): the values a for loop over v visits; ok = FALSE is TypeError   *)
Iterate(v) ==
  CASE v.t = "list" -> [ok |-> TRUE, vals |-> [i \in 1..Len(v.items) |-> v.items[i].val]]
    [] v.t = "dict" -> [ok |-> TRUE, vals |-> [i \in 1..Len(v.items) |-> JStr(v.items[i].k)]]
    [] v.t = "str" -> [ok |-> TRUE, vals |-> [i \in 1..Len(v.s) |-> JStr(<<v.s[i]>>)]]
    [] OTHER -> [ok |-> FALSE, vals |-> <<>>]

RECURSIVE JoinStrs(_)
JoinStrs(vals) ==
  IF vals = <<>> THEN <<>>
  ELSE vals[1].s \o (IF Len(vals) > 1 THEN <<", ">> ELSE <<>>) \o JoinStrs(Tail(vals))

(* ', '.join(v): TypeError unless v is an iterable of str *)
Join(v) ==
  LET it == Iterate(v)
  IN IF ~it.ok \/ \E i \in 1..Len(it.vals) : it.vals[i].t # "str"
     THEN [exc |-> "TypeError", text |-> <<>>]
     ELSE [exc |-> "none", text |-> JoinStrs(it.vals)]

-----------------------------------------------------------------------------
(* generate_pdf.  The document is the sequence of its text-bearing calls   *)
(* (cell, multi_cell); fonts, line feeds and page breaks are layout and    *)
(* are left out.  A step that raises gives exc and no document.            *)

PdfOp(op, text) == [op |-> op, text |-> text]

NoDocument == [magic |-> "", ops |-> <<>>]

(* pdf.output(dest="S").encode("latin1") of a document with calls ops *)
PdfOutput(ops) == [magic |-> "%PDF", ops |-> ops]

PdfStop(e) == [exc |-> e, ops |-> <<>>]

(* a sequence of steps: the first exception ends it *)
PdfThen(a, b) ==
  IF a.exc # "none" THEN PdfStop(a.exc)
  ELSE IF b.exc # "none" THEN PdfStop(b.exc)
  ELSE [exc |-> "none", ops |-> a.ops \o b.ops]

(* line 55: the title *)
PdfTitle(info) ==
  [exc |-> "none",
   ops |-> <<PdfOp("cell", PyStr(DictGet(info, K_name, Lit("Disease Info"))))>>]

(* lines 59-65 *)
PdfStatistics(info) ==
  LET stats == DictGet(info, K_statistics, JDict(<<>>))
  IN IF stats.t # "dict" THEN PdfStop("AttributeError")
     ELSE [exc |-> "none",
           ops |-> <<PdfOp("cell", <<"Statistics">>),
                     PdfOp("multi_cell",
                           <<"Total Cases", ": ">>
                           \o PyStr(DictGet(stats, K_total_cases, Lit("N/A")))
                           \o <<"\n", "Recovery Rate", ": ">>
                           \o PyStr(DictGet(stats, K_recovery_rate, Lit("N/A")))
                           \o <<"\n", "Mortality Rate", ": ">>
                           \o PyStr(DictGet(stats, K_mortality_rate, Lit("N/A"))))>>]

(* lines 72-75 over the entries of the mapping; multi_cell takes a str *)
RECURSIVE PdfOptionLoop(_)
PdfOptionLoop(items) ==
  IF items = <<>> THEN [exc |-> "none", ops |-> <<>>]
  ELSE IF items[1].val.t # "str" THEN PdfStop("AttributeError")
  ELSE PdfThen([exc |-> "none",
                ops |-> <<PdfOp("cell", <<"- ">> \o items[1].k),
                          PdfOp("multi_cell", items[1].val.s)>>],
               PdfOptionLoop(Tail(items)))

(* lines 69-75 *)
PdfRecoveryOptions(info) ==
  LET ro == DictGet(info, K_recovery_options, JDict(<<>>))
  IN IF ro.t # "dict" THEN PdfStop("AttributeError")
     ELSE PdfThen([exc |-> "none", ops |-> <<PdfOp("cell", <<"Recovery Options">>)>>],
                  PdfOptionLoop(ro.items))

(* lines 81-85 over the entries meds, the first numbered idx *)
RECURSIVE PdfMedLoop(_, _)
PdfMedLoop(meds, idx) ==
  IF meds = <<>> THEN [exc |-> "none", ops |-> <<>>]
  ELSE IF meds[1].t # "dict" THEN PdfStop("AttributeError")
  ELSE LET j == Join(DictGet(meds[1], K_side_effects, JList(<<>>)))
       IN IF j.exc # "none" THEN PdfStop(j.exc)
          ELSE PdfThen(
                 [exc |-> "none",
                  ops |-> <<PdfOp("cell",
                                  IntChars(idx) \o <<". ">>
                                  \o PyStr(DictGet(meds[1], K_name, Lit("Unknown")))),
                            PdfOp("multi_cell",
                                  <<"Dosage: ">>
                                  \o PyStr(DictGet(meds[1], K_dosage, Lit("N/A")))
                                  \o <<"\n", "Side Effects: ">> \o j.text)>>],
                 PdfMedLoop(Tail(meds), idx + 1))

(* lines 78-85 *)
PdfMedication(info) ==
  LET it == Iterate(DictGet(info, K_medication, JList(<<>>)))
  IN IF ~it.ok THEN PdfStop("TypeError")
     ELSE PdfThen([exc |-> "none", ops |-> <<PdfOp("cell", <<"Medication">>)>>],
                  PdfMedLoop(it.vals, 1))

(* generate_pdf(info): exc, and the bytes returned when exc is none *)
generate_pdf(info) ==
  IF info.t # "dict" THEN [exc |-> "AttributeError", bytes |-> NoDocument]
  ELSE LET r == PdfThen(PdfThen(PdfTitle(info), PdfStatistics(info)),
                        PdfThen(PdfRecoveryOptions(info), PdfMedication(info)))
       IN IF r.exc # "none" THEN [exc |-> r.exc, bytes |-> NoDocument]
          ELSE [exc |-> "none", bytes |-> PdfOutput(r.ops)]

-----------------------------------------------------------------------------
(* display_disease_info.  A step gives the UI calls it made and the        *)
(* exception that ended it (none if it completed).                         *)

Done(events) == [exc |-> "none", ui |-> events]
Raise(e, events) == [exc |-> e, ui |-> events]

(* a sequence of steps: the calls made before an exception stay made *)
Then(a, b) == IF a.exc # "none" THEN a ELSE [exc |-> b.exc, ui |-> a.ui \o b.ui]

InvalidPercentageNotice == Event("error", <<"Invalid percentage values in statistics.">>)

BarChart(recovery, mortality) ==
  [op |-> "bar_chart", text |-> <<"Recovery Rate", "Mortality Rate">>,
   file |-> <<>>, vals |-> <<recovery, mortality>>]

(* line 97 *)
DisplayTitle(info) ==
  Done(<<Event("write",
               <<"## Statistics for ">>
               \o PyStr(DictGet(info, K_name, Lit("Unknown Disease"))))>>)

(* lines 99-108: only ValueError is caught *)
DisplayStatistics(info) ==
  LET stats == DictGet(info, K_statistics, JDict(<<>>))
  IN IF stats.t # "dict" THEN Raise("AttributeError", <<>>)
     ELSE LET rr == RateOf(stats, K_recovery_rate)
              mr == RateOf(stats, K_mortality_rate)
          IN IF rr.exc = "AttributeError" THEN Raise("AttributeError", <<>>)
             ELSE IF rr.exc = "ValueError" THEN Done(<<InvalidPercentageNotice>>)
             ELSE IF mr.exc = "AttributeError" THEN Raise("AttributeError", <<>>)
             ELSE IF mr.exc = "ValueError" THEN Done(<<InvalidPercentageNotice>>)
             ELSE Done(<<BarChart(rr.n, mr.n)>>)

(* lines 111-113 over the entries of the mapping *)
RECURSIVE DisplayOptionLoop(_)
DisplayOptionLoop(items) ==
  IF items = <<>> THEN Done(<<>>)
  ELSE Then(Done(<<Event("subheader", items[1].k),
                   Event("write", PyStr(items[1].val))>>),
            DisplayOptionLoop(Tail(items)))

(* lines 110-113 *)
DisplayRecoveryOptions(info) ==
  LET ro == DictGet(info, K_recovery_options, JDict(<<>>))
      head == <<Event("write", <<"## Recovery Options">>)>>
  IN IF ro.t # "dict" THEN Raise("AttributeError", head)
     ELSE Then(Done(head), DisplayOptionLoop(ro.items))

(* lines 116-119 over the entries meds, the first numbered idx *)
RECURSIVE DisplayMedLoop(_, _)
DisplayMedLoop(meds, idx) ==
  IF meds = <<>> THEN Done(<<>>)
  ELSE IF meds[1].t # "dict" THEN Raise("AttributeError", <<>>)
  ELSE LET j == Join(DictGet(meds[1], K_side_effects, JList(<<>>)))
           shown == <<Event("subheader",
                            IntChars(idx) \o <<". ">>
                            \o PyStr(DictGet(meds[1], K_name, Lit("Unknown")))),
                      Event("write",
                            <<"**Dosage:** ">>
                            \o PyStr(DictGet(meds[1], K_dosage, Lit("N/A"))))>>
       IN IF j.exc # "none" THEN Raise(j.exc, shown)
          ELSE Then(Done(shown \o <<Event("write", <<"**Side Effects:** ">> \o j.text)>>),
                    DisplayMedLoop(Tail(meds), idx + 1))

(* lines 115-119 *)
DisplayMedication(info) ==
  LET it == Iterate(DictGet(info, K_medication, JList(<<>>)))
      head == <<Event("write", <<"## Medication">>)>>
  IN IF ~it.ok THEN Raise("TypeError", head)
     ELSE Then(Done(head), DisplayMedLoop(it.vals, 1))

DownloadButton(info) ==
  [op |-> "download_button", text |-> <<"Download PDF">>,
   file |-> PyStr(DictGet(info, K_name, Lit("disease_info"))) \o <<".pdf">>,
   vals |-> <<>>]

(* line 94: the guard that ends display_disease_info at once *)
NoRecord(info) == ~Truthy(info)

(* lines 97-130: the UI calls, the exception that leaves the function, the *)
(* number of generate_pdf calls and the bytes offered                      *)
Render(info) ==
  IF info.t # "dict"
  THEN [exc |-> "AttributeError", ui |-> <<>>, pdfCalls |-> 0, bytes |-> NoDocument]
  ELSE LET panels == Then(Then(DisplayTitle(info), DisplayStatistics(info)),
                          Then(DisplayRecoveryOptions(info), DisplayMedication(info)))
           doc == generate_pdf(info)
       IN IF panels.exc # "none"
          THEN [exc |-> panels.exc, ui |-> panels.ui, pdfCalls |-> 0, bytes |-> NoDocument]
          ELSE IF doc.exc # "none"
          THEN [exc |-> doc.exc, ui |-> panels.ui, pdfCalls |-> 1, bytes |-> NoDocument]
          ELSE [exc |-> "none", ui |-> Append(panels.ui, DownloadButton(info)),
                pdfCalls |-> 1, bytes |-> doc.bytes]

(* an absent record shown as an empty one instead of ending the function *)
display_absent_as_empty(info) == Render(IF NoRecord(info) THEN JDict(<<>>) ELSE info)

(* display_disease_info(info) *)
display_disease_info(info) ==
  IF NoRecord(info)
  THEN [exc |-> "none", ui |-> <<>>, pdfCalls |-> 0, bytes |-> NoDocument]
  ELSE Render(info)

-----------------------------------------------------------------------------
(* The text-generation service (lines 21-33): a black box that answers     *)
(* with no content, with free text, or with a JSON value written as text,  *)
(* bare or inside a fence, with prose around it.                           *)

MaxSeg == 4
MaxMeds == 2

RECURSIVE DumpItems(_, _)
RECURSIVE Dumps(_)

(* the JSON text of a value *)
Dumps(v) ==
  CASE v.t = "null" -> <<"n", "u", "l", "l">>
    [] v.t = "bool" -> IF v.n = 1 THEN <<"t", "r", "u", "e">> ELSE <<"f", "a", "l", "s", "e">>
    [] v.t = "num" -> IntChars(v.n)
    [] v.t = "str" -> <<QUOTE>> \o v.s \o <<QUOTE>>
    [] v.t = "list" -> <<"[">> \o DumpItems(v.items, FALSE) \o <<"]">>
    [] v.t = "dict" -> <<"{">> \o DumpItems(v.items, TRUE) \o <<"}">>

DumpItems(items, keyed) ==
  IF items = <<>> THEN <<>>
  ELSE (IF keyed THEN <<QUOTE>> \o items[1].k \o <<QUOTE, ":", " ">> ELSE <<>>)
       \o Dumps(items[1].val)
       \o (IF Len(items) > 1 THEN <<",", " ">> ELSE <<>>)
       \o DumpItems(Tail(items), keyed)

(* all sequences over S of length at most k *)
RECURSIVE SeqsUpTo(_, _)
SeqsUpTo(S, k) ==
  IF k = 0 THEN {<<>>}
  ELSE LET shorter == SeqsUpTo(S, k - 1)
       IN shorter \cup {Append(q, x) : q \in shorter, x \in S}

RECURSIVE Flatten(_)
Flatten(q) == IF q = <<>> THEN <<>> ELSE Head(q) \o Flatten(Tail(q))

(* an optional field of an object: absent, or present with one of vals *)
Field(key, vals) == {<<>>} \cup {<<Pair(key, v)>> : v \in vals}

RecoveryRates == {JStr(<<"7", "0", "%">>), JStr(<<"N", "/", "A">>),
                  JStr(<<"1", "5", "0", "%">>), JNum(70)}
MortalityRates == {JStr(<<"5", "%">>), JStr(<<"N", "/", "A">>), JStr(<<"-", "5", "%">>)}

StatisticsValues ==
  {None} \cup
  {JDict(a \o b \o c) : a \in Field(K_total_cases, {JNum(12)}),
                        b \in Field(K_recovery_rate, RecoveryRates),
                        c \in Field(K_mortality_rate, MortalityRates)}

RecoveryOptionsValues ==
  {JDict(<<>>),
   JDict(<<Pair(<<"r", "e", "s", "t">>, JStr(<<"s", "l", "e", "e", "p">>)),
           Pair(<<"d", "i", "e", "t">>, JStr(<<"s", "o", "u", "p">>))>>),
   JDict(<<Pair(<<"r", "e", "s", "t">>, JNum(1))>>),
   JList(<<>>)}

MedicationEntries ==
  {JDict(<<Pair(K_name, JStr(<<"a">>)),
           Pair(K_side_effects, JList(<<JStr(<<"x">>), JStr(<<"y">>)>>)),
           Pair(K_dosage, JStr(<<"1">>))>>),
   JDict(<<Pair(K_side_effects, JList(<<>>))>>),
   JDict(<<Pair(K_name, JStr(<<"c">>)), Pair(K_side_effects, JList(<<JNum(1)>>))>>),
   JStr(<<"z">>)}

MedicationValues == {JNum(3)} \cup {JList(q) : q \in SeqsUpTo(MedicationEntries, MaxMeds)}

GoodStatistics ==
  JDict(<<Pair(K_total_cases, JNum(12)), Pair(K_recovery_rate, JStr(<<"7", "0", "%">>)),
          Pair(K_mortality_rate, JStr(<<"5", "%">>))>>)

BadStatistics == JDict(<<Pair(K_recovery_rate, JStr(<<"N", "/", "A">>))>>)

(* JSON objects of the requested shape, with fields absent, empty or of    *)
(* another type: every name and statistics with one recovery/medication    *)
(* part, and every recovery/medication part with three statistics          *)
Records ==
  {JDict(a \o b \o c \o d) :
     a \in Field(K_name, {JStr(<<"f", "l", "u">>)}),
     b \in Field(K_statistics, StatisticsValues),
     c \in {<<Pair(K_recovery_options, JDict(<<Pair(<<"r", "e", "s", "t">>, JStr(<<"s", "l", "e", "e", "p">>))>>))>>},
     d \in {<<>>}}
  \cup
  {JDict(a \o b \o c \o d) :
     a \in {<<Pair(K_name, JStr(<<"f", "l", "u">>))>>},
     b \in Field(K_statistics, {GoodStatistics, BadStatistics}),
     c \in Field(K_recovery_options, RecoveryOptionsValues),
     d \in Field(K_medication, MedicationValues)}

(* JSON values that are not objects *)
Scalars == {None, JNum(0), JNum(1), JStr(<<>>), JStr(<<"x">>), JList(<<>>), JList(<<JNum(1)>>),
            JBool(TRUE)}

SampleRecords ==
  {JDict(<<>>),
   JDict(<<Pair(K_name, JStr(<<"f", "l", "u">>)),
           Pair(K_statistics, JDict(<<Pair(K_recovery_rate, JStr(<<"7", "0", "%">>)),
                                      Pair(K_mortality_rate, JStr(<<"5", "%">>))>>))>>)}

Prose == {<<>>, <<"x", " ">>, <<" ", "x">>, <<BT>>, <<BT, BT, " ">>,
          FENCE \o <<"x">> \o FENCE \o <<" ">>}

Pads == {<<>>, <<NL>>}

Pieces == {FENCE, <<BT>>, <<" ">>, <<"1">>, FENCE \o <<"{", "}">> \o FENCE}

Reply(kind, pre, pad, payload, post) ==
  [kind |-> kind, pre |-> pre, pad |-> pad, payload |-> payload, post |-> post]

NoReply == Reply("none", <<>>, <<>>, None, <<>>)

Replies ==
  {NoReply}
  \cup {Reply("text", Flatten(q), <<>>, None, <<>>) : q \in SeqsUpTo(Pieces, MaxSeg)}
  \cup {Reply("bare", <<>>, <<>>, v, <<>>) : v \in SampleRecords \cup Scalars}
  \cup {Reply("fenced", <<>>, <<NL>>, v, <<>>) : v \in Records \cup Scalars}
  \cup {Reply("fenced", a, p, v, b) : a \in Prose, p \in Pads, v \in SampleRecords, b \in Prose}

(* message.content of a reply *)
ContentOf(r) ==
  CASE r.kind = "none" -> NoContent
    [] r.kind = "text" -> Text(r.pre)
    [] r.kind = "bare" -> Text(Dumps(r.payload))
    [] r.kind = "fenced" ->
         Text(r.pre \o FENCE \o r.pad \o Dumps(r.payload) \o r.pad \o FENCE \o r.post)

-----------------------------------------------------------------------------
(* One run of the script (lines 133-137).  pc is the line the run has      *)
(* reached: idle (134), submitted (136), extracted (137), done, or the     *)
(* call an exception left: failed_get, failed_display.                     *)

Names == {<<>>, <<"f", "l", "u">>}

Init ==
  /\ pc = "idle"
  /\ disease_name = <<>>
  /\ reply = NoReply
  /\ content = NoContent
  /\ json_text = <<>>
  /\ disease_info = None
  /\ ui = <<>>
  /\ pdf_bytes = NoDocument
  /\ exc = "none"
  /\ calls = 0
  /\ pdfCalls = 0

(* lines 134-135: the text input; an empty name ends the run *)
Submit ==
  /\ pc = "idle"
  /\ \E name \in Names :
       /\ disease_name' = name
       /\ pc' = IF name # <<>> THEN "submitted" ELSE "done"
  /\ UNCHANGED <<reply, content, json_text, disease_info, ui, pdf_bytes, exc, calls, pdfCalls>>

(* line 136: get_disease_info(disease_name), the service call included *)
GetDiseaseInfo ==
  /\ pc = "submitted"
  /\ \E r \in Replies :
       LET res == GetDiseaseInfoResult(ContentOf(r))
       IN /\ reply' = r
          /\ content' = ContentOf(r)
          /\ json_text' = res.json_text
          /\ calls' = calls + 1
          /\ ui' = ui \o res.ui
          /\ exc' = res.exc
          /\ pc' = IF res.exc = "none" THEN "extracted" ELSE "failed_get"
          /\ disease_info' = IF res.exc = "none" THEN res.ret ELSE disease_info
  /\ UNCHANGED <<disease_name, pdf_bytes, pdfCalls>>

(* line 137: display_disease_info(disease_info) *)
DisplayDiseaseInfo ==
  /\ pc = "extracted"
  /\ LET d == display_disease_info(disease_info)
     IN /\ ui' = ui \o d.ui
        /\ exc' = d.exc
        /\ pdfCalls' = pdfCalls + d.pdfCalls
        /\ pdf_bytes' = d.bytes
        /\ pc' = IF d.exc = "none" THEN "done" ELSE "failed_display"
  /\ UNCHANGED <<disease_name, reply, content, json_text, disease_info, calls>>

Next == Submit \/ GetDiseaseInfo \/ DisplayDiseaseInfo

Spec == Init /\ [][Next]_vars

-----------------------------------------------------------------------------
(* Properties                                                              *)

Range(q) == {q[i] : i \in 1..Len(q)}

(* the positions (from 1) at which a triple-backtick marker starts *)
Markers(text) ==
  {i \in 1..(Len(text) - 2) : text[i] = BT /\ text[i + 1] = BT /\ text[i + 2] = BT}

(* the characters of text strictly between positions lo and hi *)
Between(text, lo, hi) == [k \in 1..(IF hi - lo > 1 THEN hi - lo - 1 ELSE 0) |-> text[lo + k]]

(* text without its leading and trailing whitespace *)
Trimmed(text) ==
  LET keep == {i \in 1..Len(text) : ~IsSpace(text[i])}
  IN IF keep = {} THEN <<>> ELSE SubSeq(text, SetMin(keep), SetMax(keep))

(* get_disease_info has received a str from the service *)
GotText == calls = 1 /\ ~content.isNone

(* the service wrapped a JSON object in a fence *)
FencedObject == calls = 1 /\ reply.kind = "fenced" /\ reply.payload.t = "dict"

(* the first and the last marker of the response are the fences of the     *)
(* JSON block: the prose holds no marker and no backtick run joins a fence *)
OwnFences ==
  /\ Markers(reply.pre \o <<BT, BT>>) = {}
  /\ Markers(<<BT, BT>> \o reply.post) = {}

ReturnedPayload ==
  /\ pc \in {"extracted", "done", "failed_display"}
  /\ disease_info = reply.payload
  /\ DecodeErrorNotice \notin Range(ui)

(* C1 as stated: whenever the service wraps a JSON object in a fence, with *)
(* any prose before and after it, get_disease_info returns exactly that    *)
(* object and signals no parse failure.                                    *)
C1_RoundTripAnyProse == FencedObject => ReturnedPayload

(* C1 amended: when the service wraps a JSON object in a fence and the     *)
(* prose around it holds no triple-backtick marker and no backtick next to *)
(* a fence, get_disease_info returns exactly that object and signals no    *)
(* parse failure.                                                          *)
C1_RoundTrip == (FencedObject /\ OwnFences) => ReturnedPayload

C1_Witness ==
  /\ FencedObject /\ OwnFences
  /\ reply.pre # <<>> /\ reply.post # <<>> /\ reply.payload.items # <<>>
  /\ pc = "done"
  /\ disease_info = reply.payload

(* C2: when the response holds two or more triple-backtick markers, the    *)
(* text handed to the JSON parser is the text strictly between the end of  *)
(* the first marker and the start of the last marker, trimmed of           *)
(* surrounding whitespace.                                                 *)
C2_OutermostSpan ==
  (GotText /\ Cardinality(Markers(content.text)) >= 2) =>
    json_text = Trimmed(Between(content.text,
                                SetMin(Markers(content.text)) + 2,
                                SetMax(Markers(content.text))))

(* two separate fenced blocks, and a payload that is not the first block *)
C2_Witness ==
  /\ GotText
  /\ LET m == Markers(content.text)
     IN /\ Cardinality(m) >= 4
        /\ \A a, b \in m : a < b => b - a >= 3
        /\ json_text # Trimmed(Between(content.text, SetMin(m) + 2,
                                       SetMin(m \ {SetMin(m)})))

(* C3: when the response holds no marker, or a single unmatched marker at  *)
(* any position, the text handed to the JSON parser is the whole response, *)
(* unmodified.                                                             *)
C3_WholeResponseFallback ==
  (GotText /\ Cardinality(Markers(content.text)) <= 1) => json_text = content.text


(* json.loads accepted the text it was handed *)
Parsed == GotText /\ JsonLoads(json_text).ok

(* the run is over, by completing or by an exception *)
Ended == pc \in {"done", "failed_get", "failed_display"}

Shown(op, text) == \E e \in Range(ui) : e.op = op /\ e.text = text
Charted == \E e \in Range(ui) : e.op = "bar_chart"
Offered == \E e \in Range(ui) : e.op = "download_button"
Printed(text) == \E o \in Range(pdf_bytes.ops) : o.op = "cell" /\ o.text = text

(* C4: when the text handed to the parser is not valid JSON, or the        *)
(* message has no content at all, get_disease_info shows the decode error, *)
(* returns None and raises nothing.                                        *)
C4_MalformedIsReturned ==
  (calls = 1 /\ (content.isNone \/ ~JsonLoads(json_text).ok)) =>
    /\ pc # "failed_get"
    /\ exc = "none"
    /\ disease_info = None
    /\ DecodeErrorNotice \in Range(ui)

(* C5: after a parse failure the UI holds the decode error notice and      *)
(* nothing else, generate_pdf was not called, no document is offered and   *)
(* the service was called once; and whatever is rendered is rendered from  *)
(* the value a successful parse returned.                                  *)
C5_FailureStopsPipeline ==
  /\ (GotText /\ ~JsonLoads(json_text).ok) =>
       /\ ui = <<DecodeErrorNotice>>
       /\ pdfCalls = 0
       /\ pdf_bytes = NoDocument
       /\ calls = 1
  /\ (pdfCalls > 0 \/ \E e \in Range(ui) : e # DecodeErrorNotice) =>
       /\ Parsed
       /\ disease_info = JsonLoads(json_text).val

C5_Witness ==
  /\ pc = "done"
  /\ GotText /\ ~JsonLoads(json_text).ok
  /\ ui = <<DecodeErrorNotice>>

(* C6: for every value a successful parse returned, display_disease_info   *)
(* and generate_pdf complete without raising, whatever the types of the    *)
(* fields.                                                                 *)
C6_RenderersTotal ==
  /\ pc # "failed_display"
  /\ (Parsed /\ Truthy(disease_info)) => generate_pdf(disease_info).exc = "none"

EmptyOrAbsent(info, key, empty) == ~HasKey(info, key) \/ DictGet(info, key, empty) = empty

(* a parsed object whose statistics, recovery_options and medication are   *)
(* each absent or empty                                                    *)
SparseRecord ==
  /\ Parsed
  /\ disease_info.t = "dict"
  /\ EmptyOrAbsent(disease_info, K_statistics, JDict(<<>>))
  /\ EmptyOrAbsent(disease_info, K_recovery_options, JDict(<<>>))
  /\ EmptyOrAbsent(disease_info, K_medication, JList(<<>>))

(* C7: for a parsed record with statistics, recovery options or medication *)
(* absent or empty, the record without any field included, the view still  *)
(* shows the three sections and the download, and the document is not      *)
(* empty and holds the three headings.                                     *)
C7_MissingFieldsStillRender ==
  (Ended /\ SparseRecord) =>
    /\ pc = "done"
    /\ \E e \in Range(ui) : e.op = "write" /\ Head(e.text) = "## Statistics for "
    /\ Shown("write", <<"## Recovery Options">>)
    /\ Shown("write", <<"## Medication">>)
    /\ Offered
    /\ pdf_bytes # NoDocument
    /\ Printed(<<"Statistics">>) /\ Printed(<<"Recovery Options">>) /\ Printed(<<"Medication">>)

IsStrOrAbsent(d, key) == ~HasKey(d, key) \/ DictGet(d, key, None).t = "str"

(* a parsed, non-empty object whose fields have the types the service was  *)
(* asked for, where present                                                *)
WellTyped ==
  /\ Parsed
  /\ disease_info.t = "dict" /\ disease_info.items # <<>>
  /\ IsStrOrAbsent(disease_info, K_name)
  /\ LET stats == DictGet(disease_info, K_statistics, JDict(<<>>))
         ro == DictGet(disease_info, K_recovery_options, JDict(<<>>))
         meds == DictGet(disease_info, K_medication, JList(<<>>))
     IN /\ stats.t = "dict"
        /\ IsStrOrAbsent(stats, K_recovery_rate) /\ IsStrOrAbsent(stats, K_mortality_rate)
        /\ ro.t = "dict" /\ \A i \in 1..Len(ro.items) : ro.items[i].val.t = "str"
        /\ meds.t = "list"
        /\ \A i \in 1..Len(meds.items) :
             LET med == meds.items[i].val
                 se == DictGet(med, K_side_effects, JList(<<>>))
             IN /\ med.t = "dict"
                /\ IsStrOrAbsent(med, K_name) /\ IsStrOrAbsent(med, K_dosage)
                /\ se.t = "list" /\ \A j \in 1..Len(se.items) : se.items[j].val.t = "str"

(* the rate is present and is a number once its percent signs are stripped *)
NumericRate(stats, key) ==
  /\ HasKey(stats, key)
  /\ DictGet(stats, key, None).t = "str"
  /\ ParseFloat(StripPct(DictGet(stats, key, None).s)).ok

(* C8: the chart is shown exactly when both rates are present and numeric; *)
(* when a rate is absent or not numeric there is no chart, the invalid     *)
(* percentage notice is shown, and the Recovery Options and Medication     *)
(* sections still follow.                                                  *)
C8_ChartIffBothRatesNumeric ==
  (Ended /\ WellTyped) =>
    LET stats == DictGet(disease_info, K_statistics, JDict(<<>>))
        both == NumericRate(stats, K_recovery_rate) /\ NumericRate(stats, K_mortality_rate)
    IN /\ Charted <=> both
       /\ ~both => /\ InvalidPercentageNotice \in Range(ui)
                   /\ Shown("write", <<"## Recovery Options">>)
                   /\ Shown("write", <<"## Medication">>)

(* C9: every value given to the bar chart lies in 0..100. *)
C9_ChartedRatesInRange ==
  \A e \in Range(ui) : e.op = "bar_chart" => \A i \in 1..Len(e.vals) : e.vals[i] \in 0..100

(* the labels of the statistics each renderer presents *)
ViewStatLabels ==
  UNION {Range(e.text) : e \in {x \in Range(ui) : x.op = "bar_chart"}}
  \cup {l \in {"Total Cases", "Recovery Rate", "Mortality Rate"} :
          \E e \in Range(ui) : e.op \in {"write", "subheader"} /\ l \in Range(e.text)}
DocStatLabels ==
  {l \in {"Total Cases", "Recovery Rate", "Mortality Rate"} :
     \E o \in Range(pdf_bytes.ops) : l \in Range(o.text)}

(* the texts of the medication section of each renderer, entry by entry *)
ViewMedication ==
  LET from == CHOOSE i \in 1..Len(ui) : ui[i] = Event("write", <<"## Medication">>)
      lines == SubSeq(ui, from + 1, Len(ui) - 1)
  IN [k \in 1..(Len(lines) \div 3) |->
        <<lines[3 * k - 2].text, Tail(lines[3 * k - 1].text), Tail(lines[3 * k].text)>>]
DocMedication ==
  LET ops == pdf_bytes.ops
      from == CHOOSE i \in 1..Len(ops) : ops[i] = PdfOp("cell", <<"Medication">>)
      lines == SubSeq(ops, from + 1, Len(ops))
  IN [k \in 1..(Len(lines) \div 2) |-> <<lines[2 * k - 1].text, lines[2 * k].text>>]

(* C10: the view and the document present the same content: the same title *)
(* (the same placeholder when name is absent), the same statistics fields, *)
(* and the medication entries in the same order with the same numbering,   *)
(* dosage and joined side effects.                                         *)
C10_RenderersEquivalent ==
  (pc = "done" /\ WellTyped) =>
    /\ Tail(ui[1].text) = pdf_bytes.ops[1].text
    /\ ViewStatLabels = DocStatLabels
    /\ Len(ViewMedication) = Len(DocMedication)
    /\ \A k \in 1..Len(ViewMedication) :
         /\ ViewMedication[k][1] = DocMedication[k][1]
         /\ DocMedication[k][2] =
              <<"Dosage: ">> \o ViewMedication[k][2]
              \o <<"\n", "Side Effects: ">> \o ViewMedication[k][3]

====
